---- MODULE Spec2Model ----
(***************************************************************************)
(* Model of the video object tracker: the recorders                        *)
(* (ColorTracker.extract_object_coordinates, extract_ball_coordinates),    *)
(* the renderers (ColorTracker.create_trajectory_video,                    *)
(* create_trajectory_overlay_video, create_trajectory_video) and the       *)
(* single-frame detector (ColorTracker.detect_colored_object).             *)
(*                                                                         *)
(* A frame is represented by what the OpenCV pipeline extracts from it:    *)
(* the largest contour's area and centroid (or no contour at all).         *)
(* A video is a finite sequence of frames; a log (the CSV / DataFrame) is  *)
(* a sequence of rows [frame, x, y].                                       *)
(***************************************************************************)
EXTENDS Integers, Sequences, FiniteSets, TLC

\* ---------------------------------------------------------------- bounds
\* longest source video, in frames
MaxFrames == 3
\* longest log, in rows
MaxRows == 3

\* ------------------------------------------------------ program constants
\* trajectory margin of the extent-based canvas
ExtentMargin == 200
\* trajectory margin of the maxima-based canvas
MaxMargin == 100
\* detect_yellow_ball's literal minimum contour area
BallMinArea == 50

\* Python's None
None == <<>>

\* ------------------------------------------------------------ input sets
\* coordinates a CSV row may hold (the file is an input of the renderers)
Points == {<<0, 0>>, <<60, 60>>, <<60, 240>>, <<240, 240>>, <<-1, 60>>}
\* centroids the detector can return: pixels of the frame
DetectPoints == {<<0, 0>>, <<60, 60>>}
\* contour areas around the minimum-area threshold
Areas == {50, 51}
\* a decoded frame: no contour, or the largest contour's area and centroid
Frames == {None} \cup {<<a, p[1], p[2]>> : a \in Areas, p \in DetectPoints}
\* (width, height) of the source videos
VideoSizes == {<<100, 100>>, <<300, 300>>}
\* color ids a caller may pass
ColorIds == {"yellow", "red", "blue", "green", "orange", "purple", "pink"}
RequestedColors == {"yellow", "pink"}

\* all sequences over S of length at most n
RECURSIVE SeqsUpTo(_, _)
SeqsUpTo(S, n) ==
  IF n = 0 THEN {<<>>}
  ELSE LET shorter == SeqsUpTo(S, n - 1)
       IN shorter \cup {Append(s, e) : s \in {t \in shorter : Len(t) = n - 1}, e \in S}

Videos == SeqsUpTo(Frames, MaxFrames)

\* ---------------------------------------------------------- configuration
default_config ==
  [colors |-> {"yellow", "red", "blue", "green", "orange", "purple"},
   detection |-> [min_area |-> 50, morphology_kernel_size |-> 5, blur_kernel_size |-> 5],
   trajectory |-> [line_thickness |-> 6, highlight_circle_size |-> 8, fps |-> 60]]

\* the top-level keys of a configuration document
ConfigKeys == {"colors", "detection", "trajectory"}

\* documents a config file may parse to: the default document restricted to
\* any subset of its top-level keys ({} included), and a complete document
\* with one more color
Documents ==
  {[k \in K |-> default_config[k]] : K \in SUBSET ConfigKeys}
    \cup {[default_config EXCEPT !.colors = @ \cup {"pink"}]}

\* what is behind a config_file path: no file, a file json.load rejects, or a
\* file that parses to a document
ConfigFiles ==
  {<<"missing">>, <<"unparseable">>} \cup {<<"parsed", d>> : d \in Documents}

\* ColorTracker.load_config: the parsed document as it is, the default
\* configuration when open or json.load raises
load_config(file) ==
  IF file[1] = "parsed" THEN file[2] ELSE default_config

\* ColorTracker.__init__: self.config for the given config_file (None: no file)
ColorTracker_init(file) ==
  IF file # None THEN load_config(file) ELSE default_config

\* the hsv_range entries of the default catalog: <<lower, upper>>, each (h, s, v)
default_hsv_range ==
  [c \in default_config.colors |->
     CASE c = "yellow" -> <<<<15, 50, 50>>, <<35, 255, 255>>>>
       [] c = "red"    -> <<<<0, 100, 100>>, <<10, 255, 255>>>>
       [] c = "blue"   -> <<<<100, 100, 100>>, <<130, 255, 255>>>>
       [] c = "green"  -> <<<<40, 100, 100>>, <<80, 255, 255>>>>
       [] c = "orange" -> <<<<10, 100, 100>>, <<25, 255, 255>>>>
       [] c = "purple" -> <<<<130, 100, 100>>, <<160, 255, 255>>>>]

\* the second range the detector tests for red
RedSecondRange == <<<<170, 100, 100>>, <<180, 255, 255>>>>

\* hsv_range arguments a caller passes to add_custom_color: the demo's pink,
\* and the low-end range of a band that wraps like red's
CustomRanges == {<<<<160, 100, 100>>, <<180, 255, 255>>>>,
                 <<<<0, 100, 100>>, <<10, 255, 255>>>>}

\* (h, s, v) values of a blob's pixels
Pixels == {<<5, 200, 200>>, <<175, 200, 200>>, <<175, 50, 200>>,
           <<120, 200, 200>>, <<25, 200, 200>>}

\* color ids requested in the one-blob detect calls
MaskColors == {"red", "pink"}

VARIABLES
  config,        \* ColorTracker.config
  call,          \* the function being executed, "none" before any call
  pc,            \* position inside the running call
  outcome,       \* "running", "returned" or the exception raised
  ret,           \* the value returned (None when nothing / None is returned)
  color_name,    \* argument: color id
  show_preview,  \* argument of extract_object_coordinates
  video,         \* the frames behind video_path / original_video_path
  source,        \* renderers: "none" (no path), "missing" (path, no file), "exists"
  os_imported,   \* ball_trajectory_video: whether the module-level name os is bound
  cap,           \* VideoCapture handle: "unbound", "none", "open", "released"
  out,           \* VideoWriter handle: "unbound", "open", "released"
  bad_release,   \* a release was attempted on a handle that was never opened
  frame_number,  \* recorders: frames decoded so far
  results,       \* recorders: rows accumulated so far
  csv_file,      \* what the recorder wrote to output_csv (None: nothing written)
  cancel,        \* the user's quit signal is pending
  reads_after_cancel, \* frames decoded while the quit signal was pending
  df,            \* renderers: the rows read from csv_path
  size,          \* renderers: <<width, height>> of the canvas
  i,             \* renderers: output frame index
  written,       \* renderers: the frames handed to out.write, in order
  profiles,      \* config["colors"][c]["hsv_range"] of every color c of the catalog
  pixel,         \* detect call on a one-blob frame: the blob's (h, s, v), else None
  config_file    \* the config_file argument the tracker was constructed with

vars == <<config, call, pc, outcome, ret, color_name, show_preview, video, source,
          os_imported, cap, out, bad_release, frame_number, results, csv_file,
          cancel, reads_after_cancel, df, size, i, written, profiles, pixel,
          config_file>>

recVars == <<frame_number, results, csv_file, cancel, reads_after_cancel, show_preview>>
renVars == <<df, size, i, written, source, os_imported, out>>

InitState(file) ==
  /\ config = ColorTracker_init(file)
  /\ call = "none"
  /\ pc = "idle"
  /\ outcome = "running"
  /\ ret = None
  /\ color_name = "yellow"
  /\ show_preview = TRUE
  /\ video = <<>>
  /\ source = "none"
  /\ os_imported = TRUE
  /\ cap = "unbound"
  /\ out = "unbound"
  /\ bad_release = FALSE
  /\ frame_number = 0
  /\ results = <<>>
  /\ csv_file = None
  /\ cancel = FALSE
  /\ reads_after_cancel = 0
  /\ df = <<>>
  /\ size = <<0, 0>>
  /\ i = 0
  /\ written = <<>>
  /\ profiles = default_hsv_range
  /\ pixel = None
  /\ config_file = file

\* a tracker constructed without a config file
Init == InitState(None)

\* a tracker constructed with any config_file argument
InitConfig == \E file \in ConfigFiles \cup {None} : InitState(file)

\* ------------------------------------------------------------- the catalog
\* ColorTracker.add_custom_color, before a run
add_custom_color ==
  /\ call = "none"
  /\ \E c \in ColorIds \ config.colors, r \in CustomRanges :
       /\ config' = [config EXCEPT !.colors = @ \cup {c}]
       /\ profiles' = [k \in config.colors \cup {c} |-> IF k = c THEN r ELSE profiles[k]]
  /\ UNCHANGED <<call, pc, outcome, ret, color_name, video, cap, bad_release, pixel,
                 config_file>>
  /\ UNCHANGED recVars
  /\ UNCHANGED renVars

\* ------------------------------------------------------------ the detector
\* what the contour stage yields for a frame with the given minimum area
Centroid(frame, min_area) ==
  IF frame = None THEN None
  ELSE IF frame[1] > min_area THEN <<frame[2], frame[3]>>
  ELSE None

\* ColorTracker.detect_colored_object: None for an unknown color or a miss
detect_colored_object(frame, color) ==
  IF color \notin config.colors THEN None
  ELSE Centroid(frame, config.detection.min_area)

\* detect_yellow_ball
detect_yellow_ball(frame) == Centroid(frame, BallMinArea)

\* a direct call of ColorTracker.detect_colored_object on one frame
DetectCall ==
  /\ call = "none"
  /\ \E f \in Frames, c \in RequestedColors :
       /\ video' = <<f>>
       /\ color_name' = c
       /\ ret' = detect_colored_object(f, c)
  /\ call' = "detect_colored_object"
  /\ pc' = "done"
  /\ outcome' = "returned"
  /\ UNCHANGED <<config, profiles, pixel, config_file, cap, bad_release>>
  /\ UNCHANGED recVars
  /\ UNCHANGED renVars

\* cv2.inRange on one pixel
inRange(hsv, lower, upper) ==
  \A k \in 1..3 : lower[k] <= hsv[k] /\ hsv[k] <= upper[k]

\* the color mask at a pixel: the profile's hsv_range, and for the color named
\* "red" also the fixed high-end range
Mask(hsv, color) ==
  \/ inRange(hsv, profiles[color][1], profiles[color][2])
  \/ /\ color = "red"
     /\ inRange(hsv, RedSecondRange[1], RedSecondRange[2])

\* ColorTracker.detect_colored_object on a frame holding one blob of uniform
\* color hsv whose contour is blob = <<area, cx, cy>>: the blob survives the
\* mask or the frame has no contour
detect_colored_blob(hsv, blob, color) ==
  IF color \notin config.colors THEN None
  ELSE detect_colored_object(IF Mask(hsv, color) THEN blob ELSE None, color)

\* a direct call of ColorTracker.detect_colored_object on a one-blob frame
DetectBlobCall ==
  /\ call = "none"
  /\ \E hsv \in Pixels, f \in Frames \ {None}, c \in MaskColors :
       /\ pixel' = hsv
       /\ video' = <<f>>
       /\ color_name' = c
       /\ ret' = detect_colored_blob(hsv, f, c)
  /\ call' = "detect_colored_object"
  /\ pc' = "done"
  /\ outcome' = "returned"
  /\ UNCHANGED <<config, profiles, config_file, cap, bad_release>>
  /\ UNCHANGED recVars
  /\ UNCHANGED renVars

\* ----------------------------------------------------------- the recorders
Recorders == {"extract_object_coordinates", "extract_ball_coordinates"}

\* the detector the running recorder applies to a frame
RecorderDetect(frame) ==
  IF call = "extract_object_coordinates"
  THEN detect_colored_object(frame, color_name)
  ELSE detect_yellow_ball(frame)

\* the row appended for a hit on frame n
Row(n, pos) == [frame |-> n, x |-> pos[1], y |-> pos[2]]

\* variant of AppendDetection that numbers the rows from 0
AppendDetection_ZeroBased(rs, n, pos) ==
  IF pos # None THEN Append(rs, Row(n - 1, pos)) ELSE rs

\* results after the frame numbered n was processed
AppendDetection(rs, n, pos) ==
  IF pos # None THEN Append(rs, Row(n, pos)) ELSE rs

\* whether the running recorder polls the keyboard after each frame
Polls == call = "extract_ball_coordinates" \/ show_preview

\* ColorTracker.extract_object_coordinates up to the loop: opens the video,
\* then looks the color up
StartExtractObject ==
  /\ call = "none"
  /\ call' = "extract_object_coordinates"
  /\ \E v \in Videos, c \in RequestedColors, p \in BOOLEAN :
       /\ video' = v
       /\ color_name' = c
       /\ show_preview' = p
       /\ cap' = "open"
       /\ IF c \in config.colors
          THEN /\ pc' = "read"
               /\ outcome' = "running"
          ELSE /\ pc' = "done"
               /\ outcome' = "KeyError"
  /\ UNCHANGED <<config, profiles, pixel, config_file, ret, bad_release, frame_number, results, csv_file, cancel,
                 reads_after_cancel>>
  /\ UNCHANGED renVars

\* extract_ball_coordinates up to the loop
StartExtractBall ==
  /\ call = "none"
  /\ call' = "extract_ball_coordinates"
  /\ \E v \in Videos : video' = v
  /\ cap' = "open"
  /\ pc' = "read"
  /\ UNCHANGED <<config, profiles, pixel, config_file, ret, outcome, color_name, bad_release>>
  /\ UNCHANGED recVars
  /\ UNCHANGED renVars

\* cap.read() returned a frame: number it, detect, append on a hit
ReadFrame ==
  /\ call \in Recorders
  /\ pc = "read"
  /\ frame_number < Len(video)
  /\ frame_number' = frame_number + 1
  /\ results' = AppendDetection(results, frame_number + 1,
                                RecorderDetect(video[frame_number + 1]))
  /\ reads_after_cancel' = IF cancel THEN reads_after_cancel + 1 ELSE reads_after_cancel
  /\ pc' = IF Polls THEN "poll" ELSE "read"
  /\ UNCHANGED <<config, profiles, pixel, config_file, call, outcome, ret, color_name, show_preview, video, cap,
                 bad_release, csv_file, cancel>>
  /\ UNCHANGED renVars

\* cap.read() returned no frame: leave the loop
EndOfStream ==
  /\ call \in Recorders
  /\ pc = "read"
  /\ frame_number = Len(video)
  /\ pc' = "finish"
  /\ UNCHANGED <<config, profiles, pixel, config_file, call, outcome, ret, color_name, video, cap, bad_release>>
  /\ UNCHANGED recVars
  /\ UNCHANGED renVars

\* cv2.waitKey(1) after the preview: 'q' leaves the loop
PollKey ==
  /\ call \in Recorders
  /\ pc = "poll"
  /\ pc' = IF cancel THEN "finish" ELSE "read"
  /\ UNCHANGED <<config, profiles, pixel, config_file, call, outcome, ret, color_name, video, cap, bad_release>>
  /\ UNCHANGED recVars
  /\ UNCHANGED renVars

\* after the loop: release the capture, write the CSV when there are rows
FinishExtract ==
  /\ call \in Recorders
  /\ pc = "finish"
  /\ cap' = "released"
  /\ csv_file' = IF results # <<>> THEN results ELSE csv_file
  /\ ret' = IF results # <<>> /\ call = "extract_object_coordinates"
            THEN <<"output_csv">> ELSE None
  /\ outcome' = "returned"
  /\ pc' = "done"
  /\ UNCHANGED <<config, profiles, pixel, config_file, call, color_name, show_preview, video, bad_release,
                 frame_number, results, cancel, reads_after_cancel>>
  /\ UNCHANGED renVars

\* the user asks to quit while a recorder runs
UserQuit ==
  /\ call \in Recorders
  /\ outcome = "running"
  /\ ~cancel
  /\ cancel' = TRUE
  /\ UNCHANGED <<config, profiles, pixel, config_file, call, pc, outcome, ret, color_name, show_preview, video, cap,
                 bad_release, frame_number, results, csv_file, reads_after_cancel>>
  /\ UNCHANGED renVars

\* ----------------------------------------------------------- the renderers
Renderers == {"ColorTracker.create_trajectory_video",
              "create_trajectory_overlay_video",
              "create_trajectory_video"}

\* strictly increasing frame numbers for a log of n rows (gaps allowed)
FrameNumbers(n) ==
  {fs \in [1..n -> 1..(MaxRows + 1)] : \A a, b \in 1..n : a < b => fs[a] < fs[b]}

\* the logs a CSV may hold: rows ordered by frame, possibly sparse
Logs ==
  UNION {{[k \in 1..Len(ps) |-> Row(fs[k], ps[k])] : fs \in FrameNumbers(Len(ps))} :
         ps \in SeqsUpTo(Points, MaxRows)}

\* a source video of n frames (their content does not reach the renderer's logic)
BlankVideo(n) == [k \in 1..n |-> None]

SetMax(S) == CHOOSE m \in S : \A e \in S : e <= m
SetMin(S) == CHOOSE m \in S : \A e \in S : m <= e
Xs(log) == {log[k].x : k \in 1..Len(log)}
Ys(log) == {log[k].y : k \in 1..Len(log)}

\* canvas from the coordinate extent (no source video), for a non-empty log
ExtentSize(log) ==
  <<SetMax(Xs(log)) - SetMin(Xs(log)) + ExtentMargin,
    SetMax(Ys(log)) - SetMin(Ys(log)) + ExtentMargin>>

\* canvas of the standalone renderer, for a non-empty log
MaximaSize(log) ==
  LET m == SetMax({SetMax(Xs(log)), SetMax(Ys(log))})
  IN <<m + MaxMargin, m + MaxMargin>>

\* 0 <= x < width and 0 <= y < height
InBounds(x, y, sz) == 0 <= x /\ x < sz[1] /\ 0 <= y /\ y < sz[2]

\* whether the running renderer filters the points against the canvas
Filters == call # "create_trajectory_video"

\* whether row k of the log is kept in the point list
KeepPoint(log, k, sz) == ~Filters \/ InBounds(log[k].x, log[k].y, sz)

\* variant of PointList that keeps only the last two rows (a sliding window)
PointList_Window(log, n, sz) ==
  LET a == IF n >= 2 /\ KeepPoint(log, n - 1, sz)
           THEN << <<log[n - 1].x, log[n - 1].y>> >> ELSE <<>>
      b == IF n >= 1 /\ KeepPoint(log, n, sz)
           THEN << <<log[n].x, log[n].y>> >> ELSE <<>>
  IN a \o b

\* the inner loop over j in range(n): the point list built from rows 1..n
RECURSIVE PointList(_, _, _)
PointList(log, n, sz) ==
  IF n = 0 THEN <<>>
  ELSE LET before == PointList(log, n - 1, sz)
       IN IF KeepPoint(log, n, sz)
          THEN Append(before, <<log[n].x, log[n].y>>)
          ELSE before

\* what cv2.polylines receives: nothing unless there are at least two points
Polyline(points) == IF Len(points) > 1 THEN points ELSE <<>>

\* what cv2.circle receives for the row k (None: not called)
Circle(log, k, sz) ==
  IF ~Filters \/ InBounds(log[k].x, log[k].y, sz)
  THEN <<log[k].x, log[k].y>>
  ELSE None

\* whether the loop reads the background from the source video
ReadsSource ==
  IF call = "ColorTracker.create_trajectory_video" THEN cap = "open"
  ELSE IF call = "create_trajectory_overlay_video" THEN source = "exists"
  ELSE FALSE

\* variant of Background that never substitutes the blank canvas
Background_NoBlank(n) == IF ReadsSource THEN n + 1 ELSE 0

\* the background of output frame n (0-based): the source frame's number in
\* decode order, or 0 for the blank canvas
Background(n) == IF ReadsSource /\ n < Len(video) THEN n + 1 ELSE 0

\* output frame n (0-based) as handed to out.write
OutputFrame(n) ==
  LET pts == PointList(df, n + 1, size)
  IN [bg |-> Background(n),
      points |-> pts,
      polyline |-> Polyline(pts),
      circle |-> Circle(df, n + 1, size)]

\* ColorTracker.create_trajectory_video up to the loop
StartTrackerRender ==
  /\ call = "none"
  /\ call' = "ColorTracker.create_trajectory_video"
  /\ \E log \in Logs, c \in RequestedColors, src \in {"none", "missing", "exists"},
        n \in 0..MaxFrames, vs \in VideoSizes :
       /\ df' = log
       /\ color_name' = c
       /\ source' = src
       /\ video' = IF src = "exists" THEN BlankVideo(n) ELSE <<>>
       /\ src # "exists" => (n = 0 /\ vs = <<100, 100>>)
       /\ IF c \notin config.colors
          THEN /\ outcome' = "KeyError"
               /\ pc' = "done"
               /\ UNCHANGED <<cap, out, size>>
          ELSE IF src = "exists"
          THEN /\ cap' = "open"
               /\ size' = vs
               /\ out' = "open"
               /\ pc' = "frame"
               /\ UNCHANGED outcome
          ELSE IF log = <<>>
          THEN /\ outcome' = "ValueError"
               /\ pc' = "done"
               /\ UNCHANGED <<cap, out, size>>
          ELSE /\ size' = ExtentSize(log)
               /\ cap' = "none"
               /\ out' = "open"
               /\ pc' = "frame"
               /\ UNCHANGED outcome
  /\ UNCHANGED <<config, profiles, pixel, config_file, ret, bad_release, os_imported, i, written>>
  /\ UNCHANGED recVars

\* create_trajectory_overlay_video up to the loop
StartOverlayRender ==
  /\ call = "none"
  /\ call' = "create_trajectory_overlay_video"
  /\ \E log \in Logs, src \in {"none", "missing", "exists"}, n \in 0..MaxFrames,
        vs \in VideoSizes, os \in BOOLEAN :
       /\ df' = log
       /\ source' = src
       /\ os_imported' = os
       /\ video' = IF src = "exists" THEN BlankVideo(n) ELSE <<>>
       /\ src # "exists" => (n = 0 /\ vs = <<100, 100>>)
       /\ src = "none" => os
       /\ IF src # "none" /\ ~os
          THEN /\ outcome' = "NameError"
               /\ pc' = "done"
               /\ UNCHANGED <<cap, out, size>>
          ELSE IF src = "exists"
          THEN /\ cap' = "open"
               /\ size' = vs
               /\ out' = "open"
               /\ pc' = "frame"
               /\ UNCHANGED outcome
          ELSE IF log = <<>>
          THEN /\ outcome' = "ValueError"
               /\ pc' = "done"
               /\ UNCHANGED <<cap, out, size>>
          ELSE /\ size' = ExtentSize(log)
               /\ out' = "open"
               /\ pc' = "frame"
               /\ UNCHANGED <<cap, outcome>>
  /\ UNCHANGED <<config, profiles, pixel, config_file, ret, color_name, bad_release, i, written>>
  /\ UNCHANGED recVars

\* the standalone create_trajectory_video up to the loop
StartStandaloneRender ==
  /\ call = "none"
  /\ call' = "create_trajectory_video"
  /\ \E log \in Logs :
       /\ df' = log
       /\ IF log = <<>>
          THEN /\ outcome' = "ValueError"
               /\ pc' = "done"
               /\ UNCHANGED <<out, size>>
          ELSE /\ size' = MaximaSize(log)
               /\ out' = "open"
               /\ pc' = "frame"
               /\ UNCHANGED outcome
  /\ UNCHANGED <<config, profiles, pixel, config_file, ret, color_name, video, source, os_imported, cap, bad_release,
                 i, written>>
  /\ UNCHANGED recVars

\* one iteration of the loop over range(len(df))
RenderFrame ==
  /\ call \in Renderers
  /\ pc = "frame"
  /\ i < Len(df)
  /\ written' = Append(written, OutputFrame(i))
  /\ i' = i + 1
  /\ UNCHANGED <<config, profiles, pixel, config_file, call, pc, outcome, ret, color_name, video, source, os_imported,
                 cap, out, bad_release, df, size>>
  /\ UNCHANGED recVars

\* ColorTracker.create_trajectory_video after the loop
FinishTrackerRender ==
  /\ call = "ColorTracker.create_trajectory_video"
  /\ pc = "frame"
  /\ i = Len(df)
  /\ out' = "released"
  /\ cap' = IF cap = "open" THEN "released" ELSE cap
  /\ outcome' = "returned"
  /\ ret' = <<"output_path">>
  /\ pc' = "done"
  /\ UNCHANGED <<config, profiles, pixel, config_file, call, color_name, video, source, os_imported, bad_release,
                 df, size, i, written>>
  /\ UNCHANGED recVars

\* create_trajectory_overlay_video after the loop: cap.release() whenever a
\* path was given, also when cap was never assigned
FinishOverlayRender ==
  /\ call = "create_trajectory_overlay_video"
  /\ pc = "frame"
  /\ i = Len(df)
  /\ out' = "released"
  /\ IF source = "none"
     THEN /\ outcome' = "returned"
          /\ UNCHANGED <<cap, bad_release>>
     ELSE IF cap = "unbound"
     THEN /\ outcome' = "UnboundLocalError"
          /\ bad_release' = TRUE
          /\ UNCHANGED cap
     ELSE /\ cap' = "released"
          /\ outcome' = "returned"
          /\ UNCHANGED bad_release
  /\ pc' = "done"
  /\ UNCHANGED <<config, profiles, pixel, config_file, call, ret, color_name, video, source, os_imported,
                 df, size, i, written>>
  /\ UNCHANGED recVars

\* the standalone create_trajectory_video after the loop
FinishStandaloneRender ==
  /\ call = "create_trajectory_video"
  /\ pc = "frame"
  /\ i = Len(df)
  /\ out' = "released"
  /\ outcome' = "returned"
  /\ pc' = "done"
  /\ UNCHANGED <<config, profiles, pixel, config_file, call, ret, color_name, video, source, os_imported, cap,
                 bad_release, df, size, i, written>>
  /\ UNCHANGED recVars

Next ==
  \/ add_custom_color
  \/ DetectCall
  \/ DetectBlobCall
  \/ StartExtractObject
  \/ StartExtractBall
  \/ ReadFrame
  \/ EndOfStream
  \/ PollKey
  \/ FinishExtract
  \/ UserQuit
  \/ StartTrackerRender
  \/ StartOverlayRender
  \/ StartStandaloneRender
  \/ RenderFrame
  \/ FinishTrackerRender
  \/ FinishOverlayRender
  \/ FinishStandaloneRender

Spec == Init /\ [][Next]_vars

\* ------------------------------------------- calls on a loaded configuration
\* ColorTracker.detect_colored_object on whatever document was loaded: the
\* lookups self.config["colors"] and self.config["detection"] raise KeyError
\* when the key is absent
ConfigDetect ==
  /\ call = "none"
  /\ call' = "detect_colored_object"
  /\ pc' = "done"
  /\ \E f \in Frames, c \in RequestedColors :
       /\ video' = <<f>>
       /\ color_name' = c
       /\ IF "colors" \notin DOMAIN config
          THEN outcome' = "KeyError" /\ UNCHANGED ret
          ELSE IF c \notin config.colors
          THEN outcome' = "returned" /\ ret' = None
          ELSE IF "detection" \notin DOMAIN config
          THEN outcome' = "KeyError" /\ UNCHANGED ret
          ELSE outcome' = "returned" /\ ret' = Centroid(f, config.detection.min_area)
  /\ UNCHANGED <<config, profiles, pixel, config_file, cap, bad_release>>
  /\ UNCHANGED recVars
  /\ UNCHANGED renVars

\* ColorTracker.create_trajectory_video up to the loop, without a source video
\* and with the default thickness arguments, on whatever document was loaded:
\* self.config["colors"][color_name] and self.config["trajectory"] raise
\* KeyError when the key is absent
ConfigRenderStart ==
  /\ call = "none"
  /\ call' = "ColorTracker.create_trajectory_video"
  /\ \E log \in Logs \ {<<>>}, c \in RequestedColors :
       /\ df' = log
       /\ color_name' = c
       /\ IF "colors" \notin DOMAIN config
          THEN /\ outcome' = "KeyError"
               /\ pc' = "done"
               /\ UNCHANGED <<cap, out, size>>
          ELSE IF c \notin config.colors \/ "trajectory" \notin DOMAIN config
          THEN /\ outcome' = "KeyError"
               /\ pc' = "done"
               /\ UNCHANGED <<cap, out, size>>
          ELSE /\ size' = ExtentSize(log)
               /\ cap' = "none"
               /\ out' = "open"
               /\ pc' = "frame"
               /\ UNCHANGED outcome
  /\ UNCHANGED <<config, profiles, pixel, config_file, ret, video, source, os_imported,
                 bad_release, i, written>>
  /\ UNCHANGED recVars

NextConfig ==
  \/ ConfigDetect
  \/ ConfigRenderStart
  \/ RenderFrame
  \/ FinishTrackerRender

SpecConfig == InitConfig /\ [][NextConfig]_vars

\* ------------------------------------------------------------------ helpers
IsPrefix(s, t) == Len(s) <= Len(t) /\ SubSeq(t, 1, Len(s)) = s

\* the frames among the first n of the video on which the running recorder's
\* detector hits
HitFrames(n) == {k \in 1..n : RecorderDetect(video[k]) # None}

\* a recorder is past its color lookup
Recording == call \in Recorders /\ outcome # "KeyError"

\* ----------------------------------------------------------------------- C1
\* C1: at every point of a recording the log holds exactly one row per decoded
\* frame on which the detector hit, the row carries that frame's 1-based decode
\* index and the detector's position, rows are in strictly increasing frame
\* order, a miss adds no row, and an uncancelled run decodes every frame.
C1_OneRowPerHit ==
  Recording =>
    /\ {results[k].frame : k \in 1..Len(results)} = HitFrames(frame_number)
    /\ Len(results) = Cardinality(HitFrames(frame_number))
    /\ \A a, b \in 1..Len(results) : a < b => results[a].frame < results[b].frame
    /\ \A k \in 1..Len(results) :
         <<results[k].x, results[k].y>> = RecorderDetect(video[results[k].frame])
    /\ (pc \in {"finish", "done"} /\ ~cancel) => frame_number = Len(video)
    /\ (pc = "done" /\ results # <<>>) => csv_file = results

\* a finished three-frame run whose middle frame was a miss
C1_Witness ==
  /\ Recording
  /\ pc = "done"
  /\ ~cancel
  /\ Len(video) = 3
  /\ Len(results) = 2
  /\ results[1].frame = 1
  /\ results[2].frame = 3

\* ----------------------------------------------------------------------- C2
\* the in-canvas points of the log entries whose frame number is at most n
RECURSIVE PointsByFrameIndex(_, _, _, _)
PointsByFrameIndex(log, k, n, sz) ==
  IF k = 0 THEN <<>>
  ELSE LET before == PointsByFrameIndex(log, k - 1, n, sz)
       IN IF log[k].frame <= n /\ InBounds(log[k].x, log[k].y, sz)
          THEN Append(before, <<log[k].x, log[k].y>>)
          ELSE before

\* C2: the point list drawn on output frame i (0-based) is exactly the log
\* entries whose frameIndex is at most i+1, restricted to the canvas.
C2_PointsByFrameIndex ==
  call \in Renderers =>
    \A k \in 1..Len(written) :
      written[k].points = PointsByFrameIndex(df, Len(df), k, size)

\* ----------------------------------------------------------------------- C3
\* C3 as stated: the point list of output frame i is a strict prefix of the
\* point list of output frame i+1.
C3_StrictPrefix ==
  call \in Renderers =>
    \A k \in 1..(Len(written) - 1) :
      /\ IsPrefix(written[k].points, written[k + 1].points)
      /\ Len(written[k + 1].points) > Len(written[k].points)

\* C3 amended: the point list of output frame i is a prefix of the point list
\* of output frame i+1; it is longer by exactly one point, the log's row i+1,
\* when that row is drawn (it lies inside the canvas, or the renderer is the
\* standalone one, which does not filter), and unchanged otherwise.
C3_Prefix ==
  call \in Renderers =>
    \A k \in 1..(Len(written) - 1) :
      /\ IsPrefix(written[k].points, written[k + 1].points)
      /\ IF call = "create_trajectory_video"
            \/ InBounds(df[k + 1].x, df[k + 1].y, size)
         THEN written[k + 1].points =
                Append(written[k].points, <<df[k + 1].x, df[k + 1].y>>)
         ELSE written[k + 1].points = written[k].points

\* two consecutive output frames: one where the list grew, then one where an
\* out-of-canvas row left it unchanged
C3_Witness ==
  /\ call \in Renderers
  /\ Len(written) = 3
  /\ Len(written[1].points) = 1
  /\ Len(written[2].points) = 2
  /\ written[3].points = written[2].points

\* ----------------------------------------------------------------------- C4
\* the in-canvas points of the first n rows, in log order
RECURSIVE InCanvasRows(_, _, _)
InCanvasRows(log, n, sz) ==
  IF n = 0 THEN <<>>
  ELSE LET before == InCanvasRows(log, n - 1, sz)
       IN IF InBounds(log[n].x, log[n].y, sz)
          THEN Append(before, <<log[n].x, log[n].y>>)
          ELSE before

\* C4: in every render function no point outside [0,width) x [0,height) is
\* passed to the polyline or to the highlight circle, and the polyline
\* connects the remaining in-canvas points consecutively in log order.
C4_NoOutOfBoundsDrawn ==
  call \in Renderers =>
    \A k \in 1..Len(written) :
      /\ \A j \in 1..Len(written[k].polyline) :
           InBounds(written[k].polyline[j][1], written[k].polyline[j][2], size)
      /\ written[k].circle # None =>
           InBounds(written[k].circle[1], written[k].circle[2], size)
      /\ written[k].polyline = Polyline(InCanvasRows(df, k, size))

\* ----------------------------------------------------------------------- C5
\* C5: rendering without a source video, for a log of non-negative
\* coordinates, the final output frame's point list has as many points as the
\* log has rows.
C5_CanvasContainsLog ==
  ( /\ call \in {"ColorTracker.create_trajectory_video", "create_trajectory_overlay_video"}
    /\ source # "exists"
    /\ \A k \in 1..Len(df) : df[k].x >= 0 /\ df[k].y >= 0
    /\ Len(written) > 0
    /\ Len(written) = Len(df) )
  => Len(written[Len(written)].points) = Len(df)

\* ----------------------------------------------------------------------- C6
\* C6: when a record or render call has returned or failed, every handle it
\* opened has been released, and no release was attempted on a handle that
\* was never opened.
C6_HandlesReleased ==
  (call \in Recorders \cup Renderers /\ outcome # "running") =>
    /\ cap # "open"
    /\ out # "open"
    /\ ~bad_release

\* ----------------------------------------------------------------------- C7
\* C7: after the quit signal arrives during recording, with or without the
\* preview, at most the frame in progress is still decoded; then the source is
\* released and the rows accumulated so far, a prefix of the uncancelled
\* run's log, are what is persisted.
C7_CancelStopsReading ==
  Recording =>
    /\ reads_after_cancel <= 1
    /\ (pc = "done" /\ cancel) =>
         /\ cap = "released"
         /\ results # <<>> => csv_file = results
         /\ \A k \in 1..Len(results) : results[k].frame \in HitFrames(Len(video))

\* ----------------------------------------------------------------------- C8
\* C8: a video with no detections yields an empty log without raising, and a
\* renderer given an empty log returns normally, having written at most one
\* frame and released its sink, with or without a source video.
C8_EmptyLogHandled ==
  /\ (Recording /\ pc = "done" /\ HitFrames(Len(video)) = {}) =>
       (outcome = "returned" /\ results = <<>>)
  /\ ( /\ call \in Renderers
       /\ pc = "done"
       /\ df = <<>>
       /\ call = "ColorTracker.create_trajectory_video" => color_name \in config.colors
       /\ os_imported )
     => (outcome = "returned" /\ Len(written) <= 1 /\ out = "released")

\* ----------------------------------------------------------------------- C9
\* an overlay run: a source video was opened and the call got past its lookups
OverlayRun ==
  /\ call \in {"ColorTracker.create_trajectory_video", "create_trajectory_overlay_video"}
  /\ source = "exists"
  /\ outcome \notin {"KeyError", "NameError"}

\* C9: overlay rendering a log of L rows writes exactly L output frames
\* whatever the source's frame count; output frame i uses the blank canvas
\* once the source is exhausted, and the trajectory is still drawn on it.
C9_BlankAfterExhaustion ==
  OverlayRun =>
    /\ pc = "done" => (outcome = "returned" /\ Len(written) = Len(df))
    /\ \A k \in 1..Len(written) :
         /\ written[k].bg = (IF k <= Len(video) THEN k ELSE 0)
         /\ written[k].points = InCanvasRows(df, k, size)
         /\ written[k].polyline = Polyline(InCanvasRows(df, k, size))

\* a finished overlay over a source shorter than the log, whose last frame is
\* blank and carries a polyline
C9_Witness ==
  /\ OverlayRun
  /\ pc = "done"
  /\ Len(video) = 1
  /\ Len(written) = 3
  /\ written[1].bg = 1
  /\ written[3].bg = 0
  /\ Len(written[3].polyline) >= 2

\* ---------------------------------------------------------------------- C10
\* C10: a detect, record or render call with a color id absent from the
\* catalog ends with an outcome that differs from a normal return (so the
\* caller can tell it from "not found"), and the catalog is left as it was:
\* the id is still absent and the detection and trajectory settings are the
\* configured ones.
C10_UnknownColorReported ==
  ( /\ call \in {"detect_colored_object", "extract_object_coordinates",
                 "ColorTracker.create_trajectory_video"}
    /\ pc = "done"
    /\ color_name \notin config.colors )
  => /\ outcome # "returned"
     /\ config.detection = default_config.detection
     /\ config.trajectory = default_config.trajectory

\* ---------------------------------------------------------------------- C11
\* the profile of color c has the hue band that wraps like red's: its
\* hsv_range is the low-end range, the high-end range is RedSecondRange
WrapsAround(c) == profiles[c] = default_hsv_range["red"]

\* C11: for every profile whose hue band wraps across the 0/180 boundary,
\* whatever its name, a blob larger than the minimum area whose pixels fall in
\* either of the two hue ranges is detected; in particular a pixel that lies
\* only in the high-end range is selected.
C11_WrapSelectsEitherRange ==
  ( /\ call = "detect_colored_object"
    /\ pixel # None
    /\ color_name \in config.colors
    /\ WrapsAround(color_name)
    /\ video[1][1] > config.detection.min_area
    /\ \/ inRange(pixel, profiles[color_name][1], profiles[color_name][2])
       \/ inRange(pixel, RedSecondRange[1], RedSecondRange[2]) )
  => ret = <<video[1][2], video[1][3]>>

\* ---------------------------------------------------------------------- C12
\* the config file is missing, unparseable, or parses to a document that
\* lacks one of the expected top-level keys
Malformed(file) ==
  /\ file # None
  /\ file[1] = "parsed" => DOMAIN file[2] # ConfigKeys

\* C12: once a detect or render call has ended on a tracker constructed with
\* a missing, unparseable or wrongly shaped config file, the tracker holds
\* the built-in default configuration, and the call failed with KeyError only
\* for a color absent from that default catalog, never on the configuration.
C12_FallsBackToDefault ==
  (Malformed(config_file) /\ pc = "done") =>
    /\ config = default_config
    /\ outcome = "KeyError" => color_name \notin default_config.colors

\* ---------------------------------------------------------------------- C13
\* the rows of the log detected on source frame n that lie inside the canvas
DetectedOn(n) ==
  {j \in 1..Len(df) : df[j].frame = n /\ InBounds(df[j].x, df[j].y, size)}

\* C13: in overlay rendering, while the source lasts, output frame i (0-based)
\* has source frame i+1 as background and carries the highlight circle only
\* when the log holds an in-canvas detection made on frame i+1, at that
\* detection's position; a frame without a detection gets no circle.
C13_CircleOnDetectedFrame ==
  OverlayRun =>
    \A k \in 1..Len(written) :
      k <= Len(video) =>
        /\ written[k].bg = k
        /\ IF DetectedOn(k) = {}
           THEN written[k].circle = None
           ELSE \E j \in DetectedOn(k) : written[k].circle = <<df[j].x, df[j].y>>
====



